---- MODULE Spec2Model ----
(***************************************************************************)
(* Model of the gitea-runner-operator scaling loop.                        *)
(*                                                                         *)
(*  - Reconcile*  : RunnerGroupReconciler.Reconcile as implemented in      *)
(*                  internal/controller/runnergroup_controller.go, split   *)
(*                  at its external calls (List/Status.Update, the Gitea   *)
(*                  query, each Job Create) so that Jobs can complete      *)
(*                  while a pass is running.                               *)
(*  - ShouldSpawn, RecordSpawn, CacheReconcile, RunPass : the              *)
(*                  SpawnedJobsCache and the pass that uses it.  No code   *)
(*                  for them is among the sources; they are modelled from  *)
(*                  the design text (implementation.md 4.1/4.2 steps 7-8,  *)
(*                  specification.md 4.2.2/4.2.3).                         *)
(*  - Store, CleanupBegin, CleanupVisit : the same cache as the one        *)
(*                  sync.Map of the reconciler, worked on by the passes    *)
(*                  of two RunnerGroups, one step per sync.Map call.       *)
(*  - PassCheck, PassSpawn, PassRecord : the scale-up loop of passes that  *)
(*                  overlap on that cache, one step per call.              *)
(*  - SteadyPass, Elapse : the passes repeated for ever over a queue that  *)
(*                  does not change, under fairness.                       *)
(*  - QueryWithLabels, ConstructJob : the labels handed to the Gitea       *)
(*                  query and joined into GITEA_RUNNER_LABELS.             *)
(*                                                                         *)
(*  - jobMatchesLabels, handleHTTPError, GetRunnerStats : the Gitea       *)
(*                  client of internal/gitea/client.go: label matching,    *)
(*                  error messages, scope switch, the paginated loops      *)
(*                  (one step per request), the user traversal and         *)
(*                  the cancellation of the ctx.                           *)
(*                                                                         *)
(* Time is counted in minutes; a pass takes less than a minute, so the     *)
(* clock only advances between passes.                                     *)
(***************************************************************************)
EXTENDS Integers, Sequences, FiniteSets, TLC

\* ---------------------------------------------------------------- bounds
MaxCap   == 2      \* largest spec.maxActiveRunners explored
MaxJobs  == 3      \* Jobs the namespace admits (Create fails beyond it)
NumItems == 2      \* distinct Gitea job IDs
MaxFetch == 2      \* longest list one query returns
MaxTime  == 10     \* last minute of the clock of the cache passes
MaxClock == 1      \* last minute of the clock of the controller passes
MaxLabelLen == 2   \* longest label, in characters
MaxReq   == 1      \* most labels a job asks for
MaxSupp  == 2      \* most labels a RunnerGroup lists
MaxPages == 1      \* full pages the server serves per listing
MaxConcurrent == 2
MaxRepoJobs == 1   \* most jobs one repository of a user serves

\* ------------------------------------------------------ program constants
TTL          == 5      \* minutes a SpawnedJobsCache entry is trusted
RequeueAfter == 10     \* seconds, ctrl.Result{RequeueAfter: 10 * time.Second}
limit        == 50     \* page size of every paginated request

Items      == 1..NumItems
FetchLists == UNION {[1..n -> Items] : n \in 0..MaxFetch}
NoTime     == -1

VARIABLES
    maxActiveRunners,  \* runnerGroup.Spec.MaxActiveRunners
    jobList,           \* Jobs owned by the RunnerGroup: TRUE = CompletionTime set
    jobFailed,         \* per Job of jobList: TRUE = the Job has failed
    statusActive,      \* runnerGroup.Status.ActiveRunners
    lastCheckTime,     \* runnerGroup.Status.LastCheckTime
    now,               \* wall clock, minutes
    pc,                \* position of the running pass: "idle", "poll", "spawn"
    activeRunners,     \* local of Reconcile
    fetched,           \* IDs of the matching queued jobs of this pass's query
    queuedJobs,        \* local of Reconcile: number of matching queued jobs
    toSpawn,           \* local of Reconcile
    i,                 \* loop counter of the spawn loop
    result,            \* what the last pass returned
    queueCalls,        \* Gitea queries issued by the current/last pass
    queryErr,          \* local err of Reconcile after the Gitea query: "none" for nil
    createCalls,       \* r.Create calls issued by the current/last pass
    spawnedThisPass,   \* item IDs the Jobs of this pass were requested for
    spawnedAt,         \* per item: time of the latest earlier pass that requested a Job for it
    tokenReads,        \* reads of the registration token Secret by the current/last pass
    keptQueued,        \* items a Job was requested for that every query since has returned
    SpawnedJobsCache,  \* JobID -> SpawnTime
    lastOp,            \* last cache call or cache pass: [op, evicted]
    recordedAt,        \* per item: time of its latest RecordSpawn, NoTime once evicted
    retried,           \* items whose current entry was written by a Retry
    storedBy,          \* per item ID: the RunnerGroup whose pass stored the entry, "none" without one
    cleanup,           \* per RunnerGroup: the cache cleanup of its pass: [active, ids, next]
    linear,            \* the cache contents that the calls made so far yield in some sequential order
    worker,            \* per concurrent pass: its step of the scale-up loop and the item it handles
    launched,          \* per item: Jobs requested for it by the concurrent passes
    jobLabels,         \* jobMatchesLabels: first argument
    labels,            \* the RunnerGroup's labels (supportedLabels of jobMatchesLabels)
    match,             \* jobMatchesLabels: "none" before the call, then "true" or "false"
    jobEnv,            \* GITEA_RUNNER_LABELS of the Jobs constructed in the pass: <<value>>, <<>> if not set
    queryLabels,       \* the labels argument of the pass's Gitea query: <<labels>>, <<>> before
    scope,             \* GetRunnerStats: the scope argument
    cpc,               \* position of the GetRunnerStats call: "idle", "call", "repos", "jobs", "repoJobs", "returned"
    endpoint,          \* endpoint of the running paginated loop
    statusIdx,         \* fetchWorkflowJobs: index into statuses
    page,              \* page of the next request
    allJobs,           \* fetchWorkflowJobs: matching jobs collected so far
    categories,        \* per status of this fetchWorkflowJobs call: [n: jobs served, reqs: requests made]
    served,            \* jobs the endpoint has served to this fetchWorkflowJobs call, in order
    lastReq,           \* the latest request and what came back
    requested,         \* endpoints requested by this GetRunnerStats call
    allRepos,          \* fetchReposForUser: repositories collected so far
    repoIdx,           \* getRunnerStatsForUser: position of the range loop
    allQueuedJobs,     \* getRunnerStatsForUser: jobs collected so far
    queried,           \* repositories whose jobs endpoint was queried, in order
    repoJobs,          \* per repository: the jobs its endpoint serves
    ret,               \* what GetRunnerStats returned: [stats, err], each <<>> for nil
    ctxDone,           \* the ctx given to GetRunnerStats has been cancelled
    errCall            \* one handleHTTPError call: its arguments and the error it returned

vars == <<maxActiveRunners, jobList, jobFailed, statusActive, lastCheckTime, now, pc,
          activeRunners, fetched, queuedJobs, toSpawn, i, result, queueCalls,
          queryErr, createCalls, spawnedThisPass, spawnedAt, tokenReads, keptQueued,
          SpawnedJobsCache, lastOp, recordedAt, retried, storedBy, cleanup, linear, worker, launched,
          jobLabels, labels, match, queryLabels, jobEnv,
          scope, cpc, endpoint,
          statusIdx, page, allJobs, served, categories, lastReq, requested, allRepos,
          repoIdx, allQueuedJobs, queried, repoJobs, ret, ctxDone, errCall>>

matchVars == <<jobLabels, labels, match, queryLabels, jobEnv>>
clientVars == <<scope, cpc, endpoint, statusIdx, page, allJobs, served, categories, lastReq,
                requested, allRepos, repoIdx, allQueuedJobs, queried, repoJobs, ret, ctxDone>>
giteaVars == <<matchVars, clientVars, errCall>>
overlapVars == <<worker, launched>>
mapVars   == <<storedBy, cleanup, linear, overlapVars>>
cacheVars == <<SpawnedJobsCache, lastOp, recordedAt, retried, mapVars>>
k8sVars   == <<jobList, jobFailed, statusActive, lastCheckTime>>

Range(s) == {s[k] : k \in 1..Len(s)}

\* ------------------------------------------------------------ controller
\* min returns the minimum of two integers
min(a, b) == IF a < b THEN a ELSE b

\* mutant: the completion test inverted
CountActiveInverted(jobs) ==
    Cardinality({k \in 1..Len(jobs) : jobs[k] = TRUE})

\* activeRunners: Jobs without a completion time
RECURSIVE CountActive(_)
CountActive(jobs) ==
    IF jobs = <<>> THEN 0
    ELSE (IF Head(jobs) = FALSE THEN 1 ELSE 0) + CountActive(Tail(jobs))

\* mutant: capacity check with > instead of >=
AtCapacityStrict(active, max) == active > max

\* 4. Capacity Check
AtCapacity(active, max) == active >= max

\* mutant: the live Jobs are not subtracted
availableSlotsOfMax(max, active) == max

\* 6. Scale Up
availableSlots(max, active) == max - active

\* mutant: one Job per queued job, slots ignored
ToSpawnUnbounded(queued, max, active) == queued

ToSpawn(queued, max, active) == min(queued, availableSlots(max, active))

\* mutant: the status is left as it was
StatusUpdateSkipped(active, t) ==
    [activeRunners |-> statusActive, lastCheckTime |-> lastCheckTime]

\* 3. Update Status: the status written by r.Status().Update
StatusUpdate(active, t) == [activeRunners |-> active, lastCheckTime |-> t]

\* mutant: the error is dropped from what the pass returns
ResultWithoutError(after, err) == [requeueAfter |-> after, err |-> "none"]

Result(after, err) == [requeueAfter |-> after, err |-> err]

Op(name, gone) == [op |-> name, evicted |-> gone]

\* the RunnerGroups the one reconciler serves
RunnerGroups == {"A", "B"}

\* no cleanup under way
\* the passes that may overlap once the serialization of passes is relaxed
Workers == 1..MaxConcurrent

\* a pass between two items of its scale-up loop
Idle == [step |-> "idle", id |-> 0]

NoCleanup == [active |-> FALSE, ids |-> {}, next |-> 0]

\* cache contents of a sequential order in which the cleanups of the
\* RunnerGroups in applied, among those under way, have taken effect
Linear(cache, applied) == [cache |-> cache, applied |-> applied]

\* ------------------------------------------------- values of the client
Failed     == -1   \* lastReq.got of a request that did not deliver a page
NoEndpoint == [path |-> "", args |-> <<>>]

Request(n, ep, status, pg, got) ==
    [n |-> n, endpoint |-> ep, status |-> status, page |-> pg,
     limit |-> limit, got |-> got]

NoReq == Request(0, NoEndpoint, "", 0, 0)

\* (*RunnerStats, error): <<>> stands for nil
Return(stats, err) == [stats |-> stats, err |-> err]

RunnerStats(jobs) == [QueuedJobs |-> jobs]

Repository(owner, name) == [Owner |-> owner, Name |-> name]

RepoPool == {Repository("user", "r1"), Repository("user", "r2")}

ErrCall(statusCode, body, operation, err) ==
    [statusCode |-> statusCode, body |-> body, operation |-> operation,
     err |-> err]

\* no GetRunnerStats call under way
ClientIdle ==
    /\ scope = "repo"
    /\ cpc = "idle"
    /\ endpoint = NoEndpoint
    /\ statusIdx = 0
    /\ page = 0
    /\ allJobs = <<>>
    /\ served = <<>>
    /\ categories = <<>>
    /\ lastReq = NoReq
    /\ requested = {}
    /\ allRepos = <<>>
    /\ repoIdx = 0
    /\ allQueuedJobs = <<>>
    /\ queried = <<>>
    /\ repoJobs = [r \in RepoPool |-> <<>>]
    /\ ret = Return(<<>>, <<>>)
    /\ ctxDone = FALSE

NoErrCall == ErrCall(0, "", "", <<>>)

Init ==
    /\ maxActiveRunners \in 1..MaxCap
    /\ jobList = <<>>
    /\ jobFailed = <<>>
    /\ statusActive = 0
    /\ lastCheckTime = NoTime
    /\ now = 0
    /\ pc = "idle"
    /\ activeRunners = 0
    /\ fetched = <<>>
    /\ queuedJobs = 0
    /\ toSpawn = 0
    /\ i = 0
    /\ result = Result(0, "none")
    /\ queueCalls = 0
    /\ queryErr = "none"
    /\ createCalls = 0
    /\ spawnedThisPass = <<>>
    /\ spawnedAt = [id \in Items |-> NoTime]
    /\ tokenReads = 0
    /\ keptQueued = {}
    /\ SpawnedJobsCache = <<>>
    /\ lastOp = Op("none", {})
    /\ recordedAt = [id \in Items |-> NoTime]
    /\ retried = {}
    /\ storedBy = [id \in Items |-> "none"]
    /\ cleanup = [rg \in RunnerGroups |-> NoCleanup]
    /\ linear = {Linear(<<>>, {})}
    /\ worker = [w \in Workers |-> Idle]
    /\ launched = [id \in Items |-> 0]
    /\ jobLabels = <<>>
    /\ labels = <<>>
    /\ match = "none"
    /\ queryLabels = <<>>
    /\ jobEnv = <<>>
    /\ ClientIdle
    /\ errCall = NoErrCall

\* Reconcile, step 6: the block that reads the registration token and spawns
\* is entered only with something to spawn.
HasWorkAlways(n) == TRUE

HasWork(n) == n > 0

\* the Jobs requested by the pass that just ended enter the history
MergeSpawned ==
    [id \in Items |-> IF id \in Range(spawnedThisPass) THEN lastCheckTime
                      ELSE spawnedAt[id]]

\* Reconcile, steps 1-5 up to the auth token: list Jobs, count, write the
\* status, capacity check, read the auth token.
ReconcileStart ==
    /\ pc = "idle"
    /\ spawnedAt' = MergeSpawned
    /\ keptQueued' = keptQueued \cup Range(spawnedThisPass)
    /\ tokenReads' = 0
    /\ fetched' = <<>> /\ queuedJobs' = 0 /\ toSpawn' = 0 /\ i' = 0
    /\ queueCalls' = 0 /\ createCalls' = 0 /\ spawnedThisPass' = <<>>
    /\ queryErr' = "none"
    /\ \E outcome \in {"ok", "listErr", "statusErr", "authErr"} :
         IF outcome = "listErr"
         THEN /\ result' = Result(0, "list")
              /\ UNCHANGED <<activeRunners, statusActive, lastCheckTime, pc>>
         ELSE /\ activeRunners' = CountActive(jobList)
              /\ IF outcome = "statusErr"
                 THEN /\ result' = Result(0, "status")
                      /\ UNCHANGED <<statusActive, lastCheckTime, pc>>
                 ELSE /\ statusActive' = StatusUpdate(activeRunners', now).activeRunners
                      /\ lastCheckTime' = StatusUpdate(activeRunners', now).lastCheckTime
                      /\ IF AtCapacity(activeRunners', maxActiveRunners)
                         THEN /\ result' = Result(RequeueAfter, "none")
                              /\ pc' = "idle"
                         ELSE IF outcome = "authErr"
                         THEN /\ result' = Result(0, "secret")
                              /\ pc' = "idle"
                         ELSE /\ result' = Result(0, "running")
                              /\ pc' = "poll"
    /\ UNCHANGED <<maxActiveRunners, jobList, jobFailed, now>>
    /\ UNCHANGED cacheVars
    /\ UNCHANGED giteaVars

\* Reconcile, steps 5-6 up to the spawn loop: the Gitea query, toSpawn, the
\* registration token.
ReconcilePoll ==
    /\ pc = "poll"
    /\ queueCalls' = queueCalls + 1
    /\ \E ok \in BOOLEAN, regOk \in BOOLEAN, list \in FetchLists :
         IF ~ok
         THEN /\ queryErr' = "gitea"
              /\ result' = Result(RequeueAfter, queryErr')
              /\ pc' = "idle"
              /\ UNCHANGED <<fetched, queuedJobs, toSpawn, tokenReads, keptQueued>>
         ELSE /\ queryErr' = "none"
              /\ fetched' = list
              /\ queuedJobs' = Len(list)
              /\ toSpawn' = ToSpawn(queuedJobs', maxActiveRunners, activeRunners)
              /\ keptQueued' = keptQueued \cap Range(list)
              /\ IF HasWork(toSpawn')
                 THEN /\ tokenReads' = tokenReads + 1
                      /\ IF regOk
                         THEN /\ pc' = "spawn"
                              /\ UNCHANGED result
                         ELSE /\ pc' = "idle"
                              /\ result' = Result(0, "secret")
                 ELSE /\ pc' = "idle"
                      /\ result' = Result(RequeueAfter, "none")
                      /\ UNCHANGED tokenReads
    /\ UNCHANGED <<maxActiveRunners, now, activeRunners, i, createCalls,
                   spawnedThisPass, spawnedAt>>
    /\ UNCHANGED k8sVars
    /\ UNCHANGED cacheVars
    /\ UNCHANGED giteaVars

\* One iteration of the spawn loop: construct the Job and create it.
ReconcileSpawn ==
    /\ pc = "spawn"
    /\ i < toSpawn
    /\ UNCHANGED <<tokenReads, keptQueued>>
    /\ createCalls' = createCalls + 1
    /\ \/ /\ Len(jobList) < MaxJobs
          /\ jobList' = Append(jobList, FALSE)
          /\ jobFailed' = Append(jobFailed, FALSE)
          /\ spawnedThisPass' = Append(spawnedThisPass, fetched[i + 1])
          /\ i' = i + 1
          /\ IF i' < toSpawn
             THEN UNCHANGED <<pc, result>>
             ELSE /\ pc' = "idle"
                  /\ result' = Result(RequeueAfter, "none")
       \/ /\ pc' = "idle"
          /\ result' = Result(0, "create")
          /\ UNCHANGED <<jobList, jobFailed, i, spawnedThisPass>>
    /\ UNCHANGED <<maxActiveRunners, statusActive, lastCheckTime, now,
                   activeRunners, fetched, queuedJobs, toSpawn, queueCalls,
                   queryErr, spawnedAt>>
    /\ UNCHANGED cacheVars
    /\ UNCHANGED giteaVars

passVars == <<pc, activeRunners, fetched, queuedJobs, toSpawn, i, result,
              queueCalls, queryErr, createCalls, spawnedThisPass, spawnedAt,
              tokenReads, keptQueued>>

\* a runner finishes: the Job gets its completion time
JobCompletes ==
    /\ \E k \in 1..Len(jobList) :
         /\ jobList[k] = FALSE
         /\ jobFailed[k] = FALSE
         /\ jobList' = [jobList EXCEPT ![k] = TRUE]
    /\ UNCHANGED <<maxActiveRunners, jobFailed, statusActive, lastCheckTime, now>>
    /\ UNCHANGED passVars
    /\ UNCHANGED cacheVars
    /\ UNCHANGED giteaVars

\* a runner's pod fails for good: the Job gets the Failed condition and no
\* completion time
JobFails ==
    /\ \E k \in 1..Len(jobList) :
         /\ jobList[k] = FALSE
         /\ jobFailed[k] = FALSE
         /\ jobFailed' = [jobFailed EXCEPT ![k] = TRUE]
    /\ UNCHANGED <<maxActiveRunners, jobList, statusActive, lastCheckTime, now>>
    /\ UNCHANGED passVars
    /\ UNCHANGED cacheVars
    /\ UNCHANGED giteaVars

\* TTLSecondsAfterFinished: a finished Job, completed or failed, is removed
JobExpires ==
    /\ \E k \in 1..Len(jobList) :
         /\ jobList[k] = TRUE \/ jobFailed[k] = TRUE
         /\ jobList' = SubSeq(jobList, 1, k - 1) \o SubSeq(jobList, k + 1, Len(jobList))
         /\ jobFailed' = SubSeq(jobFailed, 1, k - 1)
                            \o SubSeq(jobFailed, k + 1, Len(jobFailed))
    /\ UNCHANGED <<maxActiveRunners, statusActive, lastCheckTime, now>>
    /\ UNCHANGED passVars
    /\ UNCHANGED cacheVars
    /\ UNCHANGED giteaVars

Tick ==
    /\ pc = "idle"
    /\ now < MaxClock
    /\ now' = now + 1
    /\ UNCHANGED <<maxActiveRunners>>
    /\ UNCHANGED k8sVars
    /\ UNCHANGED passVars
    /\ UNCHANGED cacheVars
    /\ UNCHANGED giteaVars

Next ==
    \/ ReconcileStart
    \/ ReconcilePoll
    \/ ReconcileSpawn
    \/ JobCompletes
    \/ JobFails
    \/ JobExpires
    \/ Tick

Spec == Init /\ [][Next]_vars

\* ------------------------------------------------------ SpawnedJobsCache
\* mutant: an entry is trusted up to and including the TTL
ShouldSpawnInclusive(cache, id, t) ==
    IF id \notin DOMAIN cache THEN "New"
    ELSE IF t - cache[id] <= TTL THEN "Skip" ELSE "Retry"

\* Check Cache: Skip while the entry is younger than the TTL, Retry once the
\* TTL has expired, New without an entry
ShouldSpawn(cache, id, t) ==
    IF id \notin DOMAIN cache THEN "New"
    ELSE IF t - cache[id] < TTL THEN "Skip" ELSE "Retry"

\* mutant: an existing entry keeps its old timestamp
RecordSpawnKeepOld(cache, id, t) ==
    [k \in DOMAIN cache \cup {id} |-> IF k \in DOMAIN cache THEN cache[k] ELSE t]

\* Update Cache: store the Job ID with the spawn time
RecordSpawn(cache, id, t) ==
    [k \in DOMAIN cache \cup {id} |-> IF k = id THEN t ELSE cache[k]]

\* mutant: the cleanup empties the cache
CacheReconcileClear(cache, currentIDs) ==
    [k \in {} |-> NoTime]

\* Cache Cleanup: drop the IDs that are not in the latest list
CacheReconcile(cache, currentIDs) ==
    [k \in DOMAIN cache \cap currentIDs |-> cache[k]]

\* the New and Retry items of the list, in order, each ID once
RECURSIVE CandidatesFrom(_, _, _, _)
CandidatesFrom(cache, list, t, acc) ==
    IF list = <<>> THEN acc
    ELSE LET id == Head(list) IN
         CandidatesFrom(cache, Tail(list), t,
             IF ShouldSpawn(cache, id, t) # "Skip" /\ id \notin Range(acc)
             THEN Append(acc, id) ELSE acc)

Candidates(cache, list, t) == CandidatesFrom(cache, list, t, <<>>)

\* the first min(len(candidates), availableSlots) candidates
Selected(cands, slots) == SubSeq(cands, 1, min(Len(cands), slots))

\* RecordSpawn for each created workload, in order
RECURSIVE RecordAll(_, _, _)
RecordAll(cache, ids, t) ==
    IF ids = <<>> THEN cache
    ELSE RecordAll(RecordSpawn(cache, Head(ids), t), Tail(ids), t)

\* mutant: the cleanup is given the spawned subset only
CleanupIDsSpawnedOnly(list, created) == Range(created)

\* the IDs handed to the cleanup: the full list returned by the query
CleanupIDs(list, created) == Range(list)

\* mutant: a pass that ends early runs the cleanup with the empty list it has
PassAbortedCleaned(live, kind) ==
    /\ activeRunners' = live
    /\ fetched' = <<>>
    /\ spawnedThisPass' = <<>>
    /\ lastOp' = Op(kind, DOMAIN SpawnedJobsCache)
    /\ SpawnedJobsCache' = CacheReconcile(SpawnedJobsCache, {})
    /\ recordedAt' = [id \in Items |-> NoTime]
    /\ retried' = {}

\* a pass that ends before the spawn loop: the cache is not touched
PassAborted(live, kind) ==
    /\ activeRunners' = live
    /\ fetched' = <<>>
    /\ spawnedThisPass' = <<>>
    /\ lastOp' = Op(kind, {})
    /\ UNCHANGED <<SpawnedJobsCache, recordedAt, retried>>

\* candidates, spawn loop with RecordSpawn after each creation (the failAt-th
\* creation fails, 0 = none), cleanup
PassRan(live, list, sel, failAt) ==
    LET failed   == failAt > 0
        created  == IF failed THEN SubSeq(sel, 1, failAt - 1) ELSE sel
        recorded == RecordAll(SpawnedJobsCache, created, now)
        gone     == IF failed THEN {} ELSE DOMAIN SpawnedJobsCache \ Range(list)
    IN /\ activeRunners' = live
       /\ fetched' = list
       /\ spawnedThisPass' = created
       /\ SpawnedJobsCache' =
             IF failed THEN recorded
             ELSE CacheReconcile(recorded, CleanupIDs(list, created))
       /\ lastOp' = Op(IF failed THEN "launchError" ELSE "pass", gone)
       /\ recordedAt' = [id \in Items |->
             IF id \in Range(created) THEN now
             ELSE IF id \in gone THEN NoTime ELSE recordedAt[id]]
       /\ retried' = ((retried \ gone) \ Range(created))
             \cup {id \in Range(created) : id \in DOMAIN SpawnedJobsCache}

\* one pass of the engine with the cache
RunPass ==
    /\ pc = "idle"
    /\ \E live \in 0..maxActiveRunners :
         IF AtCapacity(live, maxActiveRunners)
         THEN PassAborted(live, "capacity")
         ELSE \/ PassAborted(live, "fetchError")
              \/ \E list \in FetchLists :
                   LET sel == Selected(Candidates(SpawnedJobsCache, list, now),
                                       availableSlots(maxActiveRunners, live))
                   IN \E failAt \in 0..Len(sel) : PassRan(live, list, sel, failAt)
    /\ UNCHANGED <<maxActiveRunners, now, pc, queuedJobs, toSpawn, i, result,
                   queueCalls, queryErr, createCalls, spawnedAt, tokenReads,
                   keptQueued>>
    /\ UNCHANGED k8sVars
    /\ UNCHANGED mapVars
    /\ UNCHANGED giteaVars

\* RecordSpawn called on the cache
DoRecordSpawn ==
    /\ \E id \in Items :
         /\ SpawnedJobsCache' = RecordSpawn(SpawnedJobsCache, id, now)
         /\ lastOp' = Op("RecordSpawn", {})
         /\ recordedAt' = [recordedAt EXCEPT ![id] = now]
         /\ retried' = IF id \in DOMAIN SpawnedJobsCache
                       THEN retried \cup {id} ELSE retried
    /\ UNCHANGED <<maxActiveRunners, now>>
    /\ UNCHANGED k8sVars
    /\ UNCHANGED passVars
    /\ UNCHANGED mapVars
    /\ UNCHANGED giteaVars

\* Reconcile(currentIDs) called on the cache
DoCacheReconcileWith(ids) ==
    /\ SpawnedJobsCache' = CacheReconcile(SpawnedJobsCache, ids)
    /\ lastOp' = Op("Reconcile", DOMAIN SpawnedJobsCache \ ids)
    /\ recordedAt' = [id \in Items |->
          IF id \in DOMAIN SpawnedJobsCache \ ids THEN NoTime ELSE recordedAt[id]]
    /\ retried' = retried \cap ids
    /\ UNCHANGED <<maxActiveRunners, now>>
    /\ UNCHANGED k8sVars
    /\ UNCHANGED passVars
    /\ UNCHANGED mapVars
    /\ UNCHANGED giteaVars

DoCacheReconcile == \E ids \in SUBSET Items : DoCacheReconcileWith(ids)

CacheTick ==
    /\ now < MaxTime
    /\ now' = now + 1
    /\ UNCHANGED <<maxActiveRunners>>
    /\ UNCHANGED k8sVars
    /\ UNCHANGED passVars
    /\ UNCHANGED cacheVars
    /\ UNCHANGED giteaVars

\* the cache under direct calls
CacheNext ==
    \/ DoRecordSpawn
    \/ DoCacheReconcile
    \/ CacheTick

CacheSpec == Init /\ [][CacheNext]_vars

\* the engine's passes with the cache
PassNext ==
    \/ RunPass
    \/ CacheTick

PassSpec == Init /\ [][PassNext]_vars

\* ---- the passes with the cache, scheduled for ever over a queue that stays
\* the queue of every query: all items, in the order of their IDs
AllQueued == [k \in 1..NumItems |-> k]

\* a pass that meets no failure and whose query, if it runs, returns AllQueued
SteadyPass ==
    /\ RunPass
    /\ lastOp'.op \in {"capacity", "pass"}
    /\ lastOp'.op = "pass" => fetched' = AllQueued

\* a pass that finds a slot free
FreePass == SteadyPass /\ lastOp'.op = "pass"

\* a minute passes, as the cache sees it: ShouldSpawn compares the age of an
\* entry with the TTL, so every entry becomes a minute older and ages beyond
\* the TTL are not told apart
Elapse ==
    /\ pc = "idle"
    /\ SpawnedJobsCache' = [k \in DOMAIN SpawnedJobsCache |->
                               IF now - SpawnedJobsCache[k] >= TTL
                               THEN SpawnedJobsCache[k]
                               ELSE SpawnedJobsCache[k] - 1]
    /\ UNCHANGED <<lastOp, recordedAt, retried, mapVars>>
    /\ UNCHANGED <<maxActiveRunners, now>>
    /\ UNCHANGED k8sVars
    /\ UNCHANGED passVars
    /\ UNCHANGED giteaVars

SteadyNext ==
    \/ SteadyPass
    \/ Elapse

\* passes keep being scheduled (RequeueAfter), time keeps passing, and the
\* live Jobs complete, so that passes with a free slot keep coming
SteadySpec ==
    /\ Init
    /\ [][SteadyNext]_vars
    /\ WF_vars(SteadyPass)
    /\ WF_vars(FreePass)
    /\ WF_vars(Elapse)

\* ---- the reconciler's one sync.Map under the passes of two RunnerGroups
\* the cache a pass of RunnerGroup rg works on: the reconciler's one map
CacheOf(rg) == SpawnedJobsCache

\* sync.Map.Delete
Delete(cache, k) == [x \in DOMAIN cache \ {k} |-> cache[x]]

\* RunnerGroups whose pass is in its cache cleanup
Cleaning == {rg \in RunnerGroups : cleanup[rg].active}

\* one more cleanup under way taken as having had its whole effect
LinearStep(L) ==
    L \cup {Linear(CacheReconcile(x[1].cache, cleanup[x[2]].ids), x[1].applied \cup {x[2]}) :
              x \in {y \in L \X Cleaning : y[2] \notin y[1].applied}}

\* every placement of the effects of the cleanups under way
Linearizations(L) == LinearStep(LinearStep(L))

\* Update Cache in a pass of rg: SpawnedJobsCache.Store(jobID, time.Now())
Store(rg) ==
    /\ ~cleanup[rg].active
    /\ \E id \in Items :
         /\ SpawnedJobsCache' = RecordSpawn(CacheOf(rg), id, now)
         /\ storedBy' = [storedBy EXCEPT ![id] = rg]
         /\ linear' = {Linear(RecordSpawn(e.cache, id, now), e.applied) :
                          e \in Linearizations(linear)}
    /\ UNCHANGED <<lastOp, recordedAt, retried, cleanup, overlapVars>>
    /\ UNCHANGED <<maxActiveRunners, now>>
    /\ UNCHANGED k8sVars
    /\ UNCHANGED passVars
    /\ UNCHANGED giteaVars

\* Cache Cleanup in a pass of rg begins: ids are the IDs of the QueuedJobs
\* the pass got from Gitea
CleanupBegin(rg) ==
    /\ ~cleanup[rg].active
    /\ \E ids \in SUBSET Items :
         cleanup' = [cleanup EXCEPT ![rg] = [active |-> TRUE, ids |-> ids, next |-> 1]]
    /\ UNCHANGED <<SpawnedJobsCache, lastOp, recordedAt, retried, storedBy, linear,
                   overlapVars>>
    /\ UNCHANGED <<maxActiveRunners, now>>
    /\ UNCHANGED k8sVars
    /\ UNCHANGED passVars
    /\ UNCHANGED giteaVars

\* Cache Cleanup, one key of the map (visited in the order of the IDs): the
\* entry is deleted if its ID is not among ids; after the last key the
\* cleanup is over
CleanupVisit(rg) ==
    /\ cleanup[rg].active
    /\ LET k      == cleanup[rg].next
           remove == k \in DOMAIN CacheOf(rg) /\ k \notin cleanup[rg].ids
           last   == k = NumItems
       IN /\ SpawnedJobsCache' = IF remove THEN Delete(CacheOf(rg), k) ELSE CacheOf(rg)
          /\ storedBy' = IF remove THEN [storedBy EXCEPT ![k] = "none"] ELSE storedBy
          /\ cleanup' = [cleanup EXCEPT ![rg] =
                            IF last THEN NoCleanup ELSE [@ EXCEPT !.next = k + 1]]
          /\ linear' = IF last
                       THEN {Linear(e.cache, e.applied \ {rg}) :
                               e \in {x \in Linearizations(linear) : rg \in x.applied}}
                       ELSE linear
    /\ UNCHANGED <<lastOp, recordedAt, retried, overlapVars>>
    /\ UNCHANGED <<maxActiveRunners, now>>
    /\ UNCHANGED k8sVars
    /\ UNCHANGED passVars
    /\ UNCHANGED giteaVars

SyncMapNext ==
    \/ \E rg \in RunnerGroups : Store(rg)
    \/ \E rg \in RunnerGroups : CleanupBegin(rg)
    \/ \E rg \in RunnerGroups : CleanupVisit(rg)
    \/ Tick

SyncMapSpec == Init /\ [][SyncMapNext]_vars

\* ---- the scale-up loop of passes that overlap on the one cache
\* Check Cache for the next item of the list: Skip goes on to the next item,
\* New and Retry go on to spawn
PassCheck(w) ==
    /\ worker[w] = Idle
    /\ \E id \in Items :
         worker' = [worker EXCEPT ![w] =
                       IF ShouldSpawn(SpawnedJobsCache, id, now) = "Skip" THEN Idle
                       ELSE [step |-> "spawn", id |-> id]]
    /\ UNCHANGED <<SpawnedJobsCache, lastOp, recordedAt, retried, storedBy, cleanup,
                   linear, launched>>
    /\ UNCHANGED <<maxActiveRunners, now>>
    /\ UNCHANGED k8sVars
    /\ UNCHANGED passVars
    /\ UNCHANGED giteaVars

\* Spawn Job: the batchv1.Job for the item is created
PassSpawn(w) ==
    /\ worker[w].step = "spawn"
    /\ launched[worker[w].id] < MaxJobs
    /\ launched' = [launched EXCEPT ![worker[w].id] = @ + 1]
    /\ worker' = [worker EXCEPT ![w].step = "record"]
    /\ UNCHANGED <<SpawnedJobsCache, lastOp, recordedAt, retried, storedBy, cleanup,
                   linear>>
    /\ UNCHANGED <<maxActiveRunners, now>>
    /\ UNCHANGED k8sVars
    /\ UNCHANGED passVars
    /\ UNCHANGED giteaVars

\* Update Cache: the item's ID is stored with the current time
PassRecord(w) ==
    /\ worker[w].step = "record"
    /\ SpawnedJobsCache' = RecordSpawn(SpawnedJobsCache, worker[w].id, now)
    /\ worker' = [worker EXCEPT ![w] = Idle]
    /\ UNCHANGED <<lastOp, recordedAt, retried, storedBy, cleanup, linear, launched>>
    /\ UNCHANGED <<maxActiveRunners, now>>
    /\ UNCHANGED k8sVars
    /\ UNCHANGED passVars
    /\ UNCHANGED giteaVars

OverlapNext ==
    \/ \E w \in Workers : PassCheck(w)
    \/ \E w \in Workers : PassSpawn(w)
    \/ \E w \in Workers : PassRecord(w)
    \/ Tick

OverlapSpec == Init /\ [][OverlapNext]_vars

\* ------------------------------------------------------- label matching
Chars      == {"a", ":"}
Labels     == UNION {[1..n -> Chars] : n \in 0..MaxLabelLen}
LabelLists(maxLen) == UNION {[1..n -> Labels] : n \in 0..maxLen}

\* strings.HasPrefix
HasPrefix(s, prefix) ==
    Len(s) >= Len(prefix) /\ SubSeq(s, 1, Len(prefix)) = prefix

\* mutant: the two lists in each other's role (every supported label must be
\* among the job's)
jobMatchesLabelsReversed(jobLabs, supportedLabels) ==
    \A j \in 1..Len(supportedLabels) :
        \E k \in 1..Len(jobLabs) : jobLabs[k] = supportedLabels[j]

\* jobMatchesLabels checks if a job's requirements are satisfied by the
\* runner's supported labels
jobMatchesLabels(jobLabs, supportedLabels) ==
    IF Len(jobLabs) = 0 THEN TRUE
    ELSE \A k \in 1..Len(jobLabs) :
            \E j \in 1..Len(supportedLabels) :
                \/ jobLabs[k] = supportedLabels[j]
                \/ HasPrefix(supportedLabels[j], jobLabs[k] \o <<":">>)

\* everything of the controller and of the cache as constructed
AtRest ==
    /\ maxActiveRunners = 1
    /\ jobList = <<>>
    /\ jobFailed = <<>>
    /\ statusActive = 0
    /\ lastCheckTime = NoTime
    /\ now = 0
    /\ pc = "idle"
    /\ activeRunners = 0
    /\ fetched = <<>>
    /\ queuedJobs = 0
    /\ toSpawn = 0
    /\ i = 0
    /\ result = Result(0, "none")
    /\ queueCalls = 0
    /\ queryErr = "none"
    /\ createCalls = 0
    /\ spawnedThisPass = <<>>
    /\ spawnedAt = [id \in Items |-> NoTime]
    /\ tokenReads = 0
    /\ keptQueued = {}
    /\ SpawnedJobsCache = <<>>
    /\ lastOp = Op("none", {})
    /\ recordedAt = [id \in Items |-> NoTime]
    /\ retried = {}
    /\ storedBy = [id \in Items |-> "none"]
    /\ cleanup = [rg \in RunnerGroups |-> NoCleanup]
    /\ linear = {Linear(<<>>, {})}
    /\ worker = [w \in Workers |-> Idle]
    /\ launched = [id \in Items |-> 0]

restVars == <<maxActiveRunners, now, k8sVars, passVars, cacheVars>>

\* the inputs of one jobMatchesLabels call
MatchInit ==
    /\ AtRest
    /\ jobLabels \in LabelLists(MaxReq)
    /\ labels \in LabelLists(MaxSupp)
    /\ match = "none"
    /\ queryLabels = <<>>
    /\ jobEnv = <<>>
    /\ ClientIdle
    /\ errCall = NoErrCall

\* the call
CallJobMatchesLabels ==
    /\ match = "none"
    /\ match' = IF jobMatchesLabels(jobLabels, labels) THEN "true" ELSE "false"
    /\ UNCHANGED <<jobLabels, labels, queryLabels, jobEnv>>
    /\ UNCHANGED restVars
    /\ UNCHANGED <<clientVars, errCall>>

MatchNext == CallJobMatchesLabels

MatchSpec == MatchInit /\ [][MatchNext]_vars

\* ---- the labels a pass works with
\* runnerGroup.Spec.Labels, as handed to the Gitea query and joined into
\* GITEA_RUNNER_LABELS
LabelsArgument(specLabels) == specLabels

RECURSIVE Join(_, _)
\* strings.Join
Join(elems, sep) ==
    IF elems = <<>> THEN <<>>
    ELSE IF Len(elems) = 1 THEN elems[1]
    ELSE elems[1] \o sep \o Join(Tail(elems), sep)

\* mutant: only the first label is handed to the runner
RunnerLabelsEnvFirst(specLabels) ==
    IF Len(specLabels) > 0 THEN <<Join(<<specLabels[1]>>, <<",">>)>> ELSE <<>>

\* the GITEA_RUNNER_LABELS entry of constructJobForRunnerGroup: absent for
\* an empty list
RunnerLabelsEnv(specLabels) ==
    IF Len(specLabels) > 0 THEN <<Join(specLabels, <<",">>)>> ELSE <<>>

\* a RunnerGroup with its spec.labels
LabelInit ==
    /\ AtRest
    /\ jobLabels = <<>>
    /\ labels \in LabelLists(MaxSupp)
    /\ match = "none"
    /\ queryLabels = <<>>
    /\ jobEnv = <<>>
    /\ ClientIdle
    /\ errCall = NoErrCall

\* the pass reaches the Gitea query
QueryWithLabels ==
    /\ queryLabels = <<>>
    /\ queryLabels' = <<LabelsArgument(labels)>>
    /\ UNCHANGED <<jobLabels, labels, match, jobEnv>>
    /\ UNCHANGED restVars
    /\ UNCHANGED <<clientVars, errCall>>

\* the spawn loop constructs one Job
ConstructJob ==
    /\ queryLabels # <<>>
    /\ Len(jobEnv) < MaxCap
    /\ jobEnv' = Append(jobEnv, RunnerLabelsEnv(labels))
    /\ UNCHANGED <<jobLabels, labels, match, queryLabels>>
    /\ UNCHANGED restVars
    /\ UNCHANGED <<clientVars, errCall>>

LabelNext == QueryWithLabels \/ ConstructJob

LabelSpec == LabelInit /\ [][LabelNext]_vars

\* --------------------------------------------------------- Gitea client
Scopes == {"repo", "org", "user", "global", "team"}

statuses == <<"queued", "waiting", "pending">>

RepoJobsEndpoint(owner, repo) ==
    [path |-> "/api/v1/repos/%s/%s/actions/jobs", args |-> <<owner, repo>>]
OrgJobsEndpoint(org) ==
    [path |-> "/api/v1/orgs/%s/actions/jobs", args |-> <<org>>]
AdminJobsEndpoint ==
    [path |-> "/api/v1/admin/actions/jobs", args |-> <<>>]
UserReposEndpoint(user) ==
    [path |-> "/api/v1/users/%s/repos", args |-> <<user>>]

\* mutant: the org scope sent to the admin endpoint
ResolveOrgAsAdmin(sc) ==
    CASE sc = "repo"   -> <<RepoJobsEndpoint("org", "repo")>>
      [] sc = "org"    -> <<AdminJobsEndpoint>>
      [] sc = "user"   -> <<UserReposEndpoint("user")>>
      [] sc = "global" -> <<AdminJobsEndpoint>>
      [] OTHER         -> <<>>

\* the switch of GetRunnerStats: the first endpoint of a scope, <<>> for the
\* default case
Resolve(sc) ==
    CASE sc = "repo"   -> <<RepoJobsEndpoint("org", "repo")>>
      [] sc = "org"    -> <<OrgJobsEndpoint("org")>>
      [] sc = "user"   -> <<UserReposEndpoint("user")>>
      [] sc = "global" -> <<AdminJobsEndpoint>>
      [] OTHER         -> <<>>

Err(msg, operation, status, body) ==
    [msg |-> msg, operation |-> operation, status |-> status, body |-> body]

\* mutant: the body left out of the internal server error
handleHTTPErrorNoBody(statusCode, body, operation) ==
    CASE statusCode = 401 ->
           Err("authentication failed for %s: check your token", operation, <<>>, <<>>)
      [] statusCode = 403 ->
           Err("access denied for %s: insufficient permissions", operation, <<>>, <<>>)
      [] statusCode = 404 ->
           Err("resource not found for %s: check URL and resource exists", operation, <<>>, <<>>)
      [] statusCode = 429 ->
           Err("rate limit exceeded for %s: please retry later", operation, <<>>, <<>>)
      [] statusCode = 500 ->
           Err("internal server error for %s: %s", operation, <<>>, <<>>)
      [] OTHER ->
           Err("gitea API returned status %d for %s: %s", operation, <<statusCode>>, <<body>>)

\* handleHTTPError provides specific error handling for different HTTP
\* status codes
handleHTTPError(statusCode, body, operation) ==
    CASE statusCode = 401 ->
           Err("authentication failed for %s: check your token", operation, <<>>, <<>>)
      [] statusCode = 403 ->
           Err("access denied for %s: insufficient permissions", operation, <<>>, <<>>)
      [] statusCode = 404 ->
           Err("resource not found for %s: check URL and resource exists", operation, <<>>, <<>>)
      [] statusCode = 429 ->
           Err("rate limit exceeded for %s: please retry later", operation, <<>>, <<>>)
      [] statusCode = 500 ->
           Err("internal server error for %s: %s", operation, <<>>, <<body>>)
      [] OTHER ->
           Err("gitea API returned status %d for %s: %s", operation, <<statusCode>>, <<body>>)

\* mutant: nothing is filtered
filterQueuedJobsAll(jobs, runnerLabels) == jobs

\* filterQueuedJobs filters workflow jobs by labels
filterQueuedJobs(jobs, runnerLabels) ==
    SelectSeq(jobs, LAMBDA job : jobMatchesLabels(job.Labels, runnerLabels))

\* mutant: every other page is requested
NextPageSkipping(pg) == pg + 2

\* page++
NextPage(pg) == pg + 1

\* the requests made and the jobs served per status, one request on
Counted(cats, idx, got) ==
    IF Len(cats) < idx
    THEN Append(cats, [n |-> got, reqs |-> 1])
    ELSE [cats EXCEPT ![idx] = [n |-> @.n + got, reqs |-> @.reqs + 1]]

\* mutant: the exhaustion test looks at the matched jobs of the page
PageLenMatched(jobs, matchedJobs) == Len(matchedJobs)

\* len(result.Jobs) of the exhaustion test: the page as it was served
PageLen(jobs, matchedJobs) == Len(jobs)

\* mutant: another page is requested after every non-empty page
MorePagesNonEmpty(n) == n > 0

\* the pagination loop goes on unless len(page) < limit
MorePages(n) == ~(n < limit)

\* mutant: what was collected so far is handed out together with the error
OnFailurePartial(collected, err) == Return(<<RunnerStats(collected)>>, <<err>>)

\* return nil, err
OnFailure(collected, err) == Return(<<>>, <<err>>)

\* mutant: the latest repository's jobs replace the earlier ones
appendQueuedLatest(all, jobs) == jobs

\* allQueuedJobs = append(allQueuedJobs, stats.QueuedJobs...)
appendQueued(all, jobs) == all \o jobs

\* ---- what the server can answer
ActionWorkflowJob(id, labs) == [ID |-> id, Labels |-> labs]

JobPool == {ActionWorkflowJob(1, << <<"a">> >>),
            ActionWorkflowJob(2, << <<"a", "a">> >>)}

RunnerLabelChoices == {<<>>, << <<"a", ":">> >>, << <<"a", ":">>, <<"a", "a">> >>}

Repeat(x, n) == [k \in 1..n |-> x]

\* pages with fewer than limit elements: short lists and lists one short of a page
ShortPages(pool) ==
    UNION {[1..n -> pool] : n \in 0..MaxFetch} \cup {Repeat(x, limit - 1) : x \in pool}

\* pages with limit elements
FullPages(pool) == {Repeat(x, limit) : x \in pool}

Response(kind, code, body, items) ==
    [kind |-> kind, code |-> code, body |-> body, items |-> items]

FailedResponses ==
    {Response("transport", 0, "", <<>>), Response("undecodable", 200, "<html>", <<>>)}
    \cup {Response("http", code, "oops", <<>>) : code \in {404, 500, 502}}

\* the answers to a request for page pg of a listing over pool; kind "ok" is
\* an answer whose body is a JSON page, whatever its status code
Responses(pool, pg) ==
    FailedResponses
    \cup {Response("ok", 201, "", <<x>>) : x \in pool}
    \cup {Response("ok", 200, "", items) : items \in ShortPages(pool)}
    \cup (IF pg <= MaxPages
          THEN {Response("ok", 200, "", items) : items \in FullPages(pool)}
          ELSE {})

\* what a request made with a cancelled ctx comes to: Do returns the ctx
\* error, or the body read is cut short (the error of io.ReadAll is dropped)
\* and what was read is not a JSON page
CancelledResponses ==
    {Response("transport", 0, "", <<>>), Response("undecodable", 200, "", <<>>)}

\* mutant: the request is not bound to the ctx
DoIgnoringContext(done, responses) == responses

\* http.NewRequestWithContext(ctx, ...) and c.httpClient.Do(req)
Do(done, responses) == IF done THEN CancelledResponses ELSE responses

\* resp.StatusCode != http.StatusOK
NotStatusOK(code) == code # 200

\* the request ends the fetch: c.httpClient.Do failed, the status is not
\* 200, or the body cannot be decoded
Failure(resp) ==
    \/ resp.kind = "transport"
    \/ NotStatusOK(resp.code)
    \/ resp.kind = "undecodable"

\* the error of a request that did not deliver a page
ResponseError(resp, operation) ==
    CASE resp.kind = "transport" -> Err("httpClient.Do", "", <<>>, <<>>)
      [] resp.kind # "transport" /\ NotStatusOK(resp.code) ->
           handleHTTPError(resp.code, resp.body, operation)
      [] OTHER -> Err("json.Unmarshal", "", <<>>, <<>>)

\* ---- GetRunnerStats
ClientInit ==
    /\ AtRest
    /\ jobLabels = <<>>
    /\ match = "none"
    /\ queryLabels = <<>>
    /\ jobEnv = <<>>
    /\ labels \in RunnerLabelChoices
    /\ scope \in Scopes
    /\ cpc = "call"
    /\ endpoint = NoEndpoint
    /\ statusIdx = 0
    /\ page = 0
    /\ allJobs = <<>>
    /\ served = <<>>
    /\ categories = <<>>
    /\ lastReq = NoReq
    /\ requested = {}
    /\ allRepos = <<>>
    /\ repoIdx = 0
    /\ allQueuedJobs = <<>>
    /\ queried = <<>>
    /\ repoJobs \in (IF scope = "user"
                     THEN [RepoPool -> UNION {[1..n -> JobPool] : n \in 0..MaxRepoJobs}]
                     ELSE {[r \in RepoPool |-> <<>>]})
    /\ ret = Return(<<>>, <<>>)
    /\ ctxDone = FALSE
    /\ errCall = NoErrCall

\* the switch on the scope
ClientCall ==
    /\ cpc = "call"
    /\ IF Resolve(scope) = <<>>
       THEN /\ cpc' = "returned"
            /\ ret' = OnFailure(<<>>, Err("unknown scope: %s", scope, <<>>, <<>>))
            /\ UNCHANGED <<endpoint, statusIdx, page>>
       ELSE /\ endpoint' = Resolve(scope)[1]
            /\ page' = 1
            /\ IF scope = "user"
               THEN cpc' = "repos" /\ UNCHANGED statusIdx
               ELSE cpc' = "jobs" /\ statusIdx' = 1
            /\ UNCHANGED ret
    /\ UNCHANGED <<scope, allJobs, served, categories, lastReq, requested, allRepos, repoIdx,
                   allQueuedJobs, queried, repoJobs, ctxDone>>
    /\ UNCHANGED <<matchVars, errCall>>
    /\ UNCHANGED restVars

\* one iteration of the page loop of fetchWorkflowJobs, and what follows it
\* when the loops end: fetchRunnerStats and GetRunnerStats return
FetchJobsPage ==
    /\ cpc = "jobs"
    /\ requested' = requested \cup {endpoint}
    /\ \E resp \in Do(ctxDone, Responses(JobPool, page)) :
         IF Failure(resp)
         THEN /\ lastReq' = Request(lastReq.n + 1, endpoint, statuses[statusIdx], page, Failed)
              /\ categories' = Counted(categories, statusIdx, 0)
              /\ ret' = OnFailure(allJobs, ResponseError(resp, "fetch workflow jobs"))
              /\ cpc' = "returned"
              /\ UNCHANGED <<statusIdx, page, allJobs, served>>
         ELSE /\ lastReq' = Request(lastReq.n + 1, endpoint, statuses[statusIdx], page,
                                    Len(resp.items))
              /\ served' = served \o resp.items
              /\ allJobs' = allJobs \o filterQueuedJobs(resp.items, labels)
              /\ categories' = Counted(categories, statusIdx, Len(resp.items))
              /\ IF MorePages(PageLen(resp.items, filterQueuedJobs(resp.items, labels)))
                 THEN /\ page' = NextPage(page)
                      /\ UNCHANGED <<statusIdx, cpc, ret>>
                 ELSE IF statusIdx < Len(statuses)
                 THEN /\ statusIdx' = statusIdx + 1
                      /\ page' = 1
                      /\ UNCHANGED <<cpc, ret>>
                 ELSE /\ cpc' = "returned"
                      /\ ret' = Return(<<RunnerStats(allJobs')>>, <<>>)
                      /\ UNCHANGED <<statusIdx, page>>
    /\ UNCHANGED <<scope, endpoint, allRepos, repoIdx, allQueuedJobs, queried, repoJobs,
                   ctxDone>>
    /\ UNCHANGED <<matchVars, errCall>>
    /\ UNCHANGED restVars

\* one iteration of the page loop of fetchReposForUser; after the last page
\* getRunnerStatsForUser enters its range loop, or returns when there is no
\* repository
FetchReposPage ==
    /\ cpc = "repos"
    /\ requested' = requested \cup {endpoint}
    /\ \E resp \in Do(ctxDone, Responses(RepoPool, page)) :
         IF Failure(resp)
         THEN /\ lastReq' = Request(lastReq.n + 1, endpoint, "", page, Failed)
              /\ ret' = OnFailure(<<>>, ResponseError(resp, "fetch user repos"))
              /\ cpc' = "returned"
              /\ UNCHANGED <<page, allRepos, repoIdx>>
         ELSE /\ lastReq' = Request(lastReq.n + 1, endpoint, "", page, Len(resp.items))
              /\ allRepos' = allRepos \o resp.items
              /\ IF MorePages(Len(resp.items))
                 THEN /\ page' = NextPage(page)
                      /\ UNCHANGED <<cpc, ret, repoIdx>>
                 ELSE IF allRepos' # <<>>
                 THEN /\ cpc' = "repoJobs"
                      /\ repoIdx' = 1
                      /\ UNCHANGED <<page, ret>>
                 ELSE /\ cpc' = "returned"
                      /\ ret' = Return(<<RunnerStats(allQueuedJobs)>>, <<>>)
                      /\ UNCHANGED <<page, repoIdx>>
    /\ UNCHANGED <<scope, endpoint, statusIdx, allJobs, served, categories, allQueuedJobs, queried,
                   repoJobs, ctxDone>>
    /\ UNCHANGED <<matchVars, errCall>>
    /\ UNCHANGED restVars

\* one iteration of the range loop of getRunnerStatsForUser: fetchRunnerStats
\* on the repository's endpoint, taken as one call
FetchRepoJobs ==
    /\ cpc = "repoJobs"
    /\ LET repo == allRepos[repoIdx]
           ep   == RepoJobsEndpoint(repo.Owner, repo.Name)
       IN /\ requested' = requested \cup {ep}
          /\ queried' = Append(queried, repo)
          /\ \E resp \in Do(ctxDone, FailedResponses
                                        \cup {Response("ok", 200, "", repoJobs[repo])}) :
               IF Failure(resp)
               THEN /\ lastReq' = Request(lastReq.n + 1, ep, "", 0, Failed)
                    /\ ret' = OnFailure(allQueuedJobs,
                                        ResponseError(resp, "fetch workflow jobs"))
                    /\ cpc' = "returned"
                    /\ UNCHANGED <<repoIdx, allQueuedJobs>>
               ELSE /\ lastReq' = Request(lastReq.n + 1, ep, "", 0, Len(resp.items))
                    /\ allQueuedJobs' =
                          appendQueued(allQueuedJobs, filterQueuedJobs(resp.items, labels))
                    /\ IF repoIdx < Len(allRepos)
                       THEN /\ repoIdx' = repoIdx + 1
                            /\ UNCHANGED <<cpc, ret>>
                       ELSE /\ cpc' = "returned"
                            /\ ret' = Return(<<RunnerStats(allQueuedJobs')>>, <<>>)
                            /\ UNCHANGED repoIdx
    /\ UNCHANGED <<scope, endpoint, statusIdx, page, allJobs, served, categories, allRepos, repoJobs,
                   ctxDone>>
    /\ UNCHANGED <<matchVars, errCall>>
    /\ UNCHANGED restVars

\* the caller's ctx is cancelled while GetRunnerStats is under way
Cancel ==
    /\ cpc \in {"call", "repos", "jobs", "repoJobs"}
    /\ ctxDone = FALSE
    /\ ctxDone' = TRUE
    /\ UNCHANGED <<scope, cpc, endpoint, statusIdx, page, allJobs, served, categories, lastReq,
                   requested, allRepos, repoIdx, allQueuedJobs, queried, repoJobs, ret>>
    /\ UNCHANGED <<matchVars, errCall>>
    /\ UNCHANGED restVars

ClientNext ==
    \/ ClientCall
    \/ Cancel
    \/ FetchJobsPage
    \/ FetchReposPage
    \/ FetchRepoJobs

ClientSpec == ClientInit /\ [][ClientNext]_vars

\* ---- handleHTTPError on its own
StatusCodes == {201, 204, 301, 400, 401, 403, 404, 429, 500, 502, 503}
Bodies      == {"", "not json", "{\"message\":\"x\"}"}
Operations  == {"fetch workflow jobs", "fetch workflow runs", "fetch user repos",
                "fetch org repos", "fetch user orgs"}

ErrInit ==
    /\ AtRest
    /\ jobLabels = <<>>
    /\ labels = <<>>
    /\ match = "none"
    /\ queryLabels = <<>>
    /\ jobEnv = <<>>
    /\ ClientIdle
    /\ errCall \in {ErrCall(c, b, o, <<>>) :
                        c \in StatusCodes, b \in Bodies, o \in Operations}

CallHandleHTTPError ==
    /\ errCall.err = <<>>
    /\ errCall' = [errCall EXCEPT !.err =
                      <<handleHTTPError(errCall.statusCode, errCall.body, errCall.operation)>>]
    /\ UNCHANGED <<matchVars, clientVars>>
    /\ UNCHANGED restVars

ErrNext == CallHandleHTTPError

ErrSpec == ErrInit /\ [][ErrNext]_vars

\* ------------------------------------------------------------ properties
LiveJobs == Cardinality({k \in 1..Len(jobList) : jobList[k] = FALSE})

Occurrences(s, id) == Cardinality({k \in 1..Len(s) : s[k] = id})

\* C1: in every pass the number of Job creation requests is at most
\* max(0, maxActiveRunners - activeRunners), activeRunners being the live
\* count taken at the start of the pass, whatever the query returned.
C1_CapacityBound ==
    createCalls <= (IF maxActiveRunners - activeRunners > 0
                    THEN maxActiveRunners - activeRunners ELSE 0)

\* a finished pass that filled every free slot although more jobs were queued
C1_Witness ==
    /\ pc = "idle"
    /\ createCalls > 0
    /\ createCalls = maxActiveRunners - activeRunners
    /\ queuedJobs > createCalls

\* C2: the number of live (non-completed) Jobs of the RunnerGroup never
\* exceeds spec.maxActiveRunners, over any sequence of serialized passes
\* interleaved with Jobs completing.
C2_GlobalLimit == LiveJobs <= maxActiveRunners

\* the limit is reached again after an earlier Job completed
C2_Witness ==
    /\ LiveJobs = maxActiveRunners
    /\ \E k \in 1..Len(jobList) : jobList[k] = TRUE
    /\ createCalls > 0

\* C3: a pass that starts with activeRunners >= maxActiveRunners issues no
\* Gitea query and no Job creation request.
C3_CapacityShortCircuit ==
    activeRunners >= maxActiveRunners => queueCalls = 0 /\ createCalls = 0

\* a pass ended by the capacity check, status written, requeued
C3_Witness ==
    /\ pc = "idle"
    /\ activeRunners >= maxActiveRunners
    /\ statusActive = activeRunners
    /\ lastCheckTime = now
    /\ result = Result(RequeueAfter, "none")

\* C4: a pass running less than TTL after a Job was requested for an item
\* does not request another Job for that item.
C4_NoDoubleProvisioning ==
    \A k \in 1..Len(spawnedThisPass) :
        LET id == spawnedThisPass[k] IN
        spawnedAt[id] = NoTime \/ lastCheckTime - spawnedAt[id] >= TTL

\* C5: ShouldSpawn is a total three-way decision: New iff there is no entry,
\* Skip iff the entry is younger than TTL, Retry iff it is TTL old or older;
\* for an item recorded at t0 and neither recorded again nor evicted, it is
\* Skip at every time in [t0, t0+TTL) and Retry at every time >= t0+TTL.
C5_ShouldSpawnDecision ==
    \A id \in Items :
        LET d  == ShouldSpawn(SpawnedJobsCache, id, now)
            t0 == recordedAt[id]
        IN /\ d \in {"New", "Skip", "Retry"}
           /\ d = "New" <=> id \notin DOMAIN SpawnedJobsCache
           /\ d = "Skip" <=> (id \in DOMAIN SpawnedJobsCache
                              /\ now - SpawnedJobsCache[id] < TTL)
           /\ d = "Retry" <=> (id \in DOMAIN SpawnedJobsCache
                               /\ now - SpawnedJobsCache[id] >= TTL)
           /\ t0 # NoTime /\ now < t0 + TTL => d = "Skip"
           /\ t0 # NoTime /\ now >= t0 + TTL => d = "Retry"

\* one item exactly TTL after its RecordSpawn, another one minute before that
C5_Witness ==
    \E a, b \in Items :
        /\ recordedAt[a] # NoTime /\ now = recordedAt[a] + TTL
        /\ recordedAt[b] # NoTime /\ now = recordedAt[b] + TTL - 1

C7_ReconcilePostcondition ==
    [][\A ids \in SUBSET Items :
         DoCacheReconcileWith(ids) =>
            /\ DOMAIN SpawnedJobsCache' = DOMAIN SpawnedJobsCache \cap ids
            /\ \A k \in DOMAIN SpawnedJobsCache' :
                  SpawnedJobsCache'[k] = SpawnedJobsCache[k]]_vars

\* a Reconcile call that evicted one entry and retained another
C7_Witness ==
    /\ lastOp.op = "Reconcile"
    /\ lastOp.evicted # {}
    /\ DOMAIN SpawnedJobsCache # {}

C9_FirstSeenRecorded ==
    (pc = "idle" /\ queueCalls = 1 /\ result = Result(RequeueAfter, "none")) =>
        LET sel == Selected(Candidates(<<>>, fetched, lastCheckTime),
                            maxActiveRunners - activeRunners)
        IN /\ spawnedThisPass = sel
           /\ \A id \in Range(sel) :
                 /\ id \in DOMAIN SpawnedJobsCache
                 /\ SpawnedJobsCache[id] = lastCheckTime

\* C10: in one pass at most one Job is requested for an item ID, however
\* often the query result lists it.
C10_NoInPassDuplicate ==
    \A id \in Items : Occurrences(spawnedThisPass, id) <= 1

\* the label req is provided by the label supp: equal, or supp is req
\* followed by ':' and a schema
Provides(supp, req) ==
    \/ supp = req
    \/ /\ Len(supp) > Len(req)
       /\ \A k \in 1..Len(req) : supp[k] = req[k]
       /\ supp[Len(req) + 1] = ":"

C12_RequiredAmongJobLabels ==
    match # "none" =>
        (match = "true" <=> \A c \in Range(labels) : c \in Range(jobLabels))

\* the jobs of a list that the labels provide for, in the list's order
Matching(jobs, supported) ==
    SelectSeq(jobs, LAMBDA job :
        \A r \in Range(job.Labels) : \E c \in Range(supported) : Provides(c, r))

SingleEndpointScopes == {"repo", "org", "global"}

\* C13: when GetRunnerStats succeeds for a resolved endpoint, the returned
\* list is exactly the served items that match the labels, in the order they
\* were served (categories queued, waiting, pending; pages ascending).
C13_FetchCompleteAndSound ==
    (scope \in SingleEndpointScopes /\ cpc = "returned" /\ ret.err = <<>>) =>
        /\ Len(ret.stats) = 1
        /\ ret.stats[1].QueuedJobs = Matching(served, labels)

\* a successful fetch over several pages that kept some items and dropped others
C13_Witness ==
    /\ scope \in SingleEndpointScopes /\ cpc = "returned" /\ ret.err = <<>>
    /\ lastReq.n > Len(statuses)
    /\ ret.stats[1].QueuedJobs # <<>>
    /\ Len(ret.stats[1].QueuedJobs) < Len(served)

\* C14: a request that ends in a non-success response, a transport failure
\* or an undecodable body makes GetRunnerStats return an error and no
\* RunnerStats, whatever was read before; stats and error never come together.
C14_AllOrNothing ==
    /\ lastReq.got = Failed =>
          (cpc = "returned" /\ ret.stats = <<>> /\ ret.err # <<>>)
    /\ ret.stats # <<>> => ret.err = <<>>

\* a failure in the second category after matching items had been collected
C14_Witness ==
    /\ lastReq.got = Failed
    /\ lastReq.status = "waiting"
    /\ allJobs # <<>>

\* C15: every jobs request carries limit 50; the first request to an
\* endpoint is page 1 of "queued"; page n+1 of a category follows a full
\* page n; page 1 of the next category follows the first page with fewer
\* than 50 items; nothing follows a failed request or the short page of the
\* last category.
C15_PaginationProtocol ==
    [][(cpc = "jobs" /\ lastReq'.n # lastReq.n) =>
         LET prev == lastReq
             req  == lastReq'
         IN /\ req.n = prev.n + 1
            /\ req.limit = 50
            /\ req.endpoint = endpoint
            /\ IF prev.endpoint # req.endpoint
               THEN req.status = "queued" /\ req.page = 1
               ELSE /\ prev.got # Failed
                    /\ IF prev.got >= 50
                       THEN req.status = prev.status /\ req.page = prev.page + 1
                       ELSE /\ req.page = 1
                            /\ \E k \in 1..(Len(statuses) - 1) :
                                  prev.status = statuses[k] /\ req.status = statuses[k + 1]
            /\ (req.got # Failed /\ req.got < 50 /\ req.status = "pending")
                  => cpc' = "returned"
            /\ req.got = Failed => cpc' = "returned"]_vars

\* the second page of the last category, after a page of 49 in the category before
C15_Witness ==
    /\ cpc = "returned" /\ ret.err = <<>>
    /\ lastReq.status = "pending" /\ lastReq.page = 2
    /\ lastReq.n = 4
    /\ Len(served) >= 50 + 49

\* C16: repo, org and global request only their one jobs endpoint; user
\* requests the user's repository listing and then repository jobs
\* endpoints; any other scope returns an error and requests nothing.
C16_ScopeResolution ==
    /\ scope = "repo" => requested \subseteq {RepoJobsEndpoint("org", "repo")}
    /\ scope = "org" => requested \subseteq {OrgJobsEndpoint("org")}
    /\ scope = "global" => requested \subseteq {AdminJobsEndpoint}
    /\ scope = "user" =>
          /\ requested \subseteq
                {UserReposEndpoint("user")}
                \cup {RepoJobsEndpoint(r.Owner, r.Name) : r \in RepoPool}
          /\ requested # {} => UserReposEndpoint("user") \in requested
    /\ scope \notin {"repo", "org", "global", "user"} =>
          /\ requested = {}
          /\ cpc \in {"call", "returned"}
          /\ cpc = "returned" => (ret.stats = <<>> /\ ret.err # <<>>)
    /\ (scope \in {"repo", "org", "global", "user"} /\ cpc = "returned")
          => requested # {}

\* an org-scoped call that returned jobs
C16_Witness ==
    /\ scope = "org" /\ cpc = "returned" /\ ret.err = <<>>
    /\ ret.stats[1].QueuedJobs # <<>>
    /\ requested = {OrgJobsEndpoint("org")}

RECURSIVE PerRepoJobs(_)
\* the matching jobs of the given repositories, repository by repository
PerRepoJobs(repos) ==
    IF repos = <<>> THEN <<>>
    ELSE Matching(repoJobs[Head(repos)], labels) \o PerRepoJobs(Tail(repos))

RepoJobsRequests ==
    {ep \in requested : ep.path = "/api/v1/repos/%s/%s/actions/jobs"}

\* C17: user scope: no jobs endpoint is queried before the enumeration has
\* ended; the repositories are queried once each in enumeration order; on
\* success all were queried and the result is the concatenation of their
\* results in that order; with no repository the result is empty and no jobs
\* endpoint is queried; after a failure on the k-th repository none after it
\* is queried.
C17_UserTraversal ==
    scope = "user" =>
        /\ cpc = "repos" => (queried = <<>> /\ RepoJobsRequests = {})
        /\ Len(queried) <= Len(allRepos)
        /\ queried = SubSeq(allRepos, 1, Len(queried))
        /\ RepoJobsRequests = {RepoJobsEndpoint(r.Owner, r.Name) : r \in Range(queried)}
        /\ (cpc = "returned" /\ ret.err = <<>>) =>
              /\ queried = allRepos
              /\ ret.stats[1].QueuedJobs = PerRepoJobs(allRepos)
              /\ allRepos = <<>> => ret.stats[1].QueuedJobs = <<>>
        /\ (cpc = "returned" /\ ret.err # <<>> /\ queried # <<>>) =>
              /\ lastReq.got = Failed
              /\ lastReq.endpoint =
                    RepoJobsEndpoint(queried[Len(queried)].Owner, queried[Len(queried)].Name)

\* a traversal over two pages of repositories that returned jobs of both repositories
C17_Witness ==
    /\ scope = "user" /\ cpc = "returned" /\ ret.err = <<>>
    /\ Len(allRepos) > 50
    /\ \E a, b \in Range(ret.stats[1].QueuedJobs) : a # b

\* C18: 401, 403, 404, 429, 500 and every other status each give their own
\* error; every error carries the operation; the body is part of the error
\* exactly for 500 and for the other statuses.
C18_ErrorCategories ==
    errCall.err # <<>> =>
        LET e == errCall.err[1]
            c == errCall.statusCode
        IN /\ e.operation = errCall.operation
           /\ c = 401 <=> e.msg = "authentication failed for %s: check your token"
           /\ c = 403 <=> e.msg = "access denied for %s: insufficient permissions"
           /\ c = 404 <=> e.msg = "resource not found for %s: check URL and resource exists"
           /\ c = 429 <=> e.msg = "rate limit exceeded for %s: please retry later"
           /\ c = 500 <=> e.msg = "internal server error for %s: %s"
           /\ c \notin {401, 403, 404, 429, 500}
                 <=> e.msg = "gitea API returned status %d for %s: %s"
           /\ c \in {401, 403, 404, 429} => e.body = <<>>
           /\ c \notin {401, 403, 404, 429} => e.body = <<errCall.body>>

\* an internal server error with a body
C18_Witness ==
    /\ errCall.err # <<>>
    /\ errCall.statusCode = 500
    /\ errCall.body # ""
    /\ errCall.err[1].body = <<errCall.body>>

\* C19: when the Gitea query returns an error the pass creates no Job,
\* returns that error, and has queried once; no pass queries twice.
C19_FetchFailureAborts ==
    /\ queueCalls <= 1
    /\ queryErr # "none" =>
          /\ pc = "idle"
          /\ queueCalls = 1
          /\ createCalls = 0
          /\ spawnedThisPass = <<>>
          /\ result.err = queryErr

\* a failed query in a pass with a free slot, after an earlier pass created a Job
C19_Witness ==
    /\ queryErr # "none"
    /\ activeRunners < maxActiveRunners
    /\ LiveJobs > 0
    /\ result = Result(RequeueAfter, "gitea")

\* C20: when the creation of the k-th selected Job fails the pass returns an
\* error, attempts no further creation, the k-1 Jobs created before stay,
\* their item IDs are in the cache, and candidate k and later ones are not.
C20_LaunchFailureNoRollback ==
    (pc = "idle" /\ result.err = "create") =>
        /\ createCalls = Len(spawnedThisPass) + 1
        /\ createCalls <= toSpawn
        /\ LiveJobs >= Len(spawnedThisPass)
        /\ \A k \in 1..Len(spawnedThisPass) :
              spawnedThisPass[k] \in DOMAIN SpawnedJobsCache
        /\ \A k \in createCalls..Len(fetched) :
              (fetched[k] \notin Range(spawnedThisPass))
                 => fetched[k] \notin DOMAIN SpawnedJobsCache

\* C25: every pass of an existing RunnerGroup that ends at the capacity
\* check, with a failed Gitea query, with a failed Job creation or after the
\* spawn loop returns RequeueAfter = 10 s.
C25_FixedIntervalRequeue ==
    (pc = "idle" /\ lastCheckTime # NoTime
       /\ result.err \in {"none", "gitea", "create"})
        => result.requeueAfter = RequeueAfter

RunningJobs ==
    Cardinality({k \in 1..Len(jobList) : jobList[k] = FALSE /\ jobFailed[k] = FALSE})

\* C28: the status.activeRunners a pass writes is the number of running Jobs
\* of the RunnerGroup, Jobs that succeeded or failed not counted, and it is
\* the count the capacity check of the pass uses.
C28_ActiveRunnersIsRunningCount ==
    [][(ReconcileStart /\ result'.err \notin {"list", "status"}) =>
          /\ statusActive' = RunningJobs
          /\ activeRunners' = statusActive']_vars

\* C21: after a pass in which the creation of the Job for an item failed,
\* ShouldSpawn answers Retry for that item, so the next pass selects it again
\* through the Retry path of the cache.
C21_RetryAfterLaunchFailure ==
    (pc = "idle" /\ result.err = "create") =>
        LET id == fetched[i + 1]
        IN /\ id \in DOMAIN SpawnedJobsCache
           /\ ShouldSpawn(SpawnedJobsCache, id, now) = "Retry"

\* C29: a fetch ends with the unexpected-status error only for a status
\* outside 200..299; an answer with a 2xx status is never turned into an error.
C29_SuccessStatusNotAnError ==
    (cpc = "returned" /\ ret.err # <<>> /\ ret.err[1].status # <<>>) =>
        ret.err[1].status[1] \notin 200..299

BaseName(l) ==
    LET colons == {k \in 1..Len(l) : l[k] = ":"}
    IN IF colons = {} THEN l
       ELSE SubSeq(l, 1, (CHOOSE k \in colons : \A j \in colons : k <= j) - 1)

\* the implicit default labels, name:image
DefaultLabels == {<<"a", ":">>}

\* C22: the label set a pass uses is spec.labels plus the default labels, a
\* default being left out iff a declared label has its base name; every
\* declared label is in it.
C22_EffectiveLabels ==
    queryLabels # <<>> =>
        LET used     == Range(queryLabels[1])
            declared == Range(labels)
        IN /\ declared \subseteq used
           /\ used \subseteq declared \cup DefaultLabels
           /\ \A d \in DefaultLabels :
                 d \in used <=>
                    \/ d \in declared
                    \/ ~\E l \in declared : BaseName(l) = BaseName(d)

\* C23: the caches of two RunnerGroups are isolated: storing item ID i in a
\* pass of one RunnerGroup leaves ShouldSpawn(i) of every other RunnerGroup
\* as it was, and the cleanup of one RunnerGroup's pass removes no entry
\* stored by a pass of another.
C23_PerPoolIsolation ==
    [][\A rg \in RunnerGroups :
          /\ Store(rg) =>
                \A other \in RunnerGroups \ {rg} : \A id \in Items :
                    ShouldSpawn(CacheOf(other)', id, now')
                        = ShouldSpawn(CacheOf(other), id, now)
          /\ CleanupVisit(rg) =>
                \A id \in DOMAIN SpawnedJobsCache \ DOMAIN SpawnedJobsCache' :
                    storedBy[id] = rg]_vars

\* C24: the cache calls of concurrent passes take effect atomically: whenever
\* no call is under way, the cache contents are those of some sequential
\* order of the calls made, each cleanup placed between its begin and its end.
C24_CacheLinearizable ==
    Cleaning = {} => SpawnedJobsCache \in {e.cache : e \in linear}

\* C31: an empty queue is a successful no-op: a pass below capacity whose
\* Gitea query succeeds with no matching queued job creates no Job, does not
\* read the registration token, returns no error and requeues after 10 s.
C31_EmptyQueueNoOp ==
    (queueCalls = 1 /\ queryErr = "none" /\ queuedJobs = 0)
        => /\ pc = "idle"
           /\ createCalls = 0
           /\ tokenReads = 0
           /\ spawnedThisPass = <<>>
           /\ result = Result(RequeueAfter, "none")
           /\ RequeueAfter = 10

C31_Witness ==
    /\ queueCalls = 1 /\ queryErr = "none" /\ queuedJobs = 0
    /\ activeRunners > 0 /\ activeRunners < maxActiveRunners
    /\ tokenReads = 0 /\ result = Result(RequeueAfter, "none")

\* C32: whether a category has another page is decided on the page as it
\* was served, not on its matched jobs: after a page of 50 served jobs the
\* next page of the same category is requested, after a page of fewer than
\* 50 it is not, whatever number of jobs of the page matched the labels.
C32_ExhaustionOnRawPage ==
    [][(cpc = "jobs" /\ lastReq'.n # lastReq.n /\ lastReq'.got # Failed) =>
         LET got     == lastReq'.got
             matched == Len(allJobs') - Len(allJobs)
             more    == cpc' = "jobs" /\ statusIdx' = statusIdx /\ page' = page + 1
         IN /\ matched \in 0..got
            /\ got <= limit
            /\ (got = limit) => more
            /\ (got < limit) => ~more]_vars

\* a category whose first page held 50 jobs none of which matched and whose
\* second page held one job that matched
C32_Witness ==
    /\ cpc = "jobs" /\ statusIdx = 2 /\ page = 1
    /\ lastReq.status = "queued" /\ lastReq.page = 2 /\ lastReq.got = 1
    /\ Len(served) = limit + 1
    /\ Len(allJobs) = 1 /\ allJobs[1] = served[limit + 1]

\* C33: matching and launching use the same labels: the list handed to the
\* Gitea query of a pass is the list that is comma-joined into the
\* GITEA_RUNNER_LABELS of every Job constructed in that pass (no variable is
\* set for an empty list).
C33_SameLabelsMatchedAndLaunched ==
    \A k \in 1..Len(jobEnv) :
        /\ queryLabels # <<>>
        /\ jobEnv[k] = IF queryLabels[1] = <<>> THEN <<>>
                       ELSE <<Join(queryLabels[1], <<",">>)>>

\* two Jobs constructed for a RunnerGroup with two different labels
C33_Witness ==
    /\ Len(jobEnv) = 2
    /\ Len(labels) = 2 /\ labels[1] # labels[2] /\ labels[1] # <<>> /\ labels[2] # <<>>
    /\ jobEnv[2] = <<labels[1] \o <<",">> \o labels[2]>>

\* C34: no double spawn under overlapping passes: of passes that overlap and
\* meet the same uncached item, at most one requests a Job for it, so within
\* the TTL of its first request an item has had one Job requested.
C34_NoDoubleSpawnWhenOverlapping ==
    \A id \in Items : now < TTL => launched[id] <= 1

C36_SpawnRateBound ==
    \A k \in 1..Len(spawnedThisPass) :
        LET id == spawnedThisPass[k]
        IN (id \in keptQueued /\ spawnedAt[id] # NoTime)
              => lastCheckTime - spawnedAt[id] >= TTL

RECURSIVE SumReqs(_)
SumReqs(cats) == IF cats = <<>> THEN 0 ELSE cats[1].reqs + SumReqs(Tail(cats))

\* C38: pagination ends after a fixed number of requests: a status whose n
\* jobs are served in consecutive pages of 50 takes exactly n \div 50 + 1
\* requests (one more, answered by an empty page, when n is a multiple of
\* 50, n = 0 included), request k asking for page k; an endpoint takes three
\* such series; a status goes on exactly while its pages are full and no
\* request has failed.
C38_PaginationRequestCount ==
    scope \in SingleEndpointScopes =>
        /\ \A c \in 1..Len(categories) :
              LET cat == categories[c]
                  done == c < statusIdx \/ (cpc = "returned" /\ ret.err = <<>>)
              IN /\ done => cat.reqs = (cat.n \div limit) + 1
                 /\ (~done /\ cpc = "jobs") =>
                       /\ cat.n % limit = 0
                       /\ cat.reqs = cat.n \div limit
                       /\ page = cat.reqs + 1
        /\ cpc = "jobs" => Len(categories) \in {statusIdx - 1, statusIdx}
        /\ (cpc = "jobs" /\ Len(categories) < statusIdx) => page = 1
        /\ lastReq.n = SumReqs(categories)
        /\ (cpc = "returned" /\ ret.err = <<>>) =>
              /\ Len(categories) = 3
              /\ lastReq.n >= 3

\* a call that returned after a status of 50 jobs (two requests, the second
\* answered by an empty page), a status of 0 jobs and a status of 99 jobs
C38_Witness ==
    /\ scope \in SingleEndpointScopes
    /\ cpc = "returned" /\ ret.err = <<>>
    /\ Len(categories) = 3
    /\ categories[1] = [n |-> limit, reqs |-> 2]
    /\ categories[2] = [n |-> 0, reqs |-> 1]
    /\ categories[3] = [n |-> 2 * limit - 1, reqs |-> 2]
    /\ lastReq.n = 5

====
